---- MODULE Spec2Model ----
(***************************************************************************)
(* A model of the two scripts of example-python-tiff-handler:              *)
(*   src/src/tiff_loader.py  (class TiffLoader and its __main__)           *)
(*   src/src/plot_thumb.py   (load_csv, plot_data,                         *)
(*                            create_thumbnail_pictures)                   *)
(*                                                                         *)
(* Spec      : the life of one TiffLoader object (construction, then any   *)
(*             sequence of get_/save_ calls).                              *)
(* SpecPlot  : one run of plot_thumb's __main__ (load_csv, plot_data).     *)
(*                                                                         *)
(* Conventions.                                                            *)
(*  - Python's None is the empty sequence, a present value x is <<x>>.     *)
(*  - A raster array of shape (count, height, width) is a sequence of      *)
(*    bands, each a sequence of rows, each a sequence of pixels.           *)
(*  - A raw pixel is [nan |-> BOOLEAN, t |-> Int], t the value in tenths   *)
(*    (15 is 1.5), so that the float -> int conversion is not the          *)
(*    identity.                                                            *)
(*  - A geometry is the set of unit cells <<x, y>> it covers, with the     *)
(*    flag shapely reports as is_valid; a coordinate reference system is   *)
(*    a name, and reprojection translates the easting by the difference    *)
(*    of the two systems' offsets.                                         *)
(*  - An affine transform is its origin [ox, oy] (unit pixel size).        *)
(***************************************************************************)
EXTENDS Integers, Sequences, FiniteSets, TLC

VARIABLES
    \* ---- tiff_loader.py ----
    image_file,       \* the raster file on disk
    shape_file,       \* None, or the shapefile on disk (shape_filename)
    pc,               \* position in TiffLoader.__init__ / object state
    error,            \* the exception that ended construction, "" if none
    shapefile_reads,  \* how many times a shapefile was read
    shape,            \* local `shape` of __init__
    tif_image, tif_transform, tif_meta, png_image,   \* self.*
    png_out, tif_out, \* the output files written by save_png/save_tif
    ret,              \* the value returned by the last get_* call
    \* ---- plot_thumb.py ----
    csv_file,         \* the lines of the csv file
    readable,         \* the image files plt.imread can read
    ppc,              \* position in plot_thumb's __main__
    perror,           \* the exception that ended the run, "" if none
    data,             \* the list load_csv returned
    plotted,          \* the (x, y) points plt.plot drew
    thumbs,           \* the AnnotationBbox artists added to the axes
    imreads,          \* the rows whose image file plt.imread was called on
    saved             \* whether plt.savefig wrote the figure

tiffVars == <<image_file, shape_file, pc, error, shapefile_reads, shape,
              tif_image, tif_transform, tif_meta, png_image, png_out, tif_out, ret>>
plotVars == <<csv_file, readable, ppc, perror, data, plotted, thumbs, imreads, saved>>
vars == <<tiffVars, plotVars>>

(***************************************************************************)
(* Bounds of the model.                                                    *)
(***************************************************************************)
MaxBands == 3        \* rasters have 1..MaxBands bands
MaxHeight == 2       \* and 1..MaxHeight rows
MaxWidth == 2        \* and 1..MaxWidth columns
NumPatterns == 2     \* pixel patterns per raster size
MaxShapes == 2       \* a shapefile holds 0..MaxShapes geometries

None == <<>>
Some(x) == <<x>>

SetMin(S) == CHOOSE m \in S : \A n \in S : m <= n
SetMax(S) == CHOOSE m \in S : \A n \in S : m >= n

(***************************************************************************)
(* The inputs: raster files and shapefiles.                                *)
(***************************************************************************)
NaN == [nan |-> TRUE, t |-> 0]
Num(t) == [nan |-> FALSE, t |-> t]

\* The raw pixel values the rasters are filled with (in tenths):
\* 256, 1.5, NaN, -1, 255, 0, 300, 7.
PixelCycle == <<Num(2560), Num(15), NaN, Num(-10), Num(2550), Num(0), Num(3000), Num(70)>>

PatternPixel(p, k) == PixelCycle[((3 * p + k) % Len(PixelCycle)) + 1]

PatternArray(count, height, width, p) ==
    [b \in 1..count |-> [y \in 1..height |-> [x \in 1..width |->
        PatternPixel(p, (b - 1) * height * width + (y - 1) * width + (x - 1))]]]

CRSs == {"EPSG:4326", "EPSG:3857"}
\* The easting of the world origin in each coordinate reference system.
CrsOffset(crs) == IF crs = "EPSG:4326" THEN 0 ELSE 1

Drivers == {"GTiff", "JP2OpenJPEG"}

Rasters ==
    { [count |-> c, height |-> h, width |-> w, crs |-> crs, driver |-> d,
       transform |-> [ox |-> 0, oy |-> 0],
       bands |-> PatternArray(c, h, w, p)] :
        c \in 1..MaxBands, h \in 1..MaxHeight, w \in 1..MaxWidth,
        crs \in {"EPSG:4326"}, d \in Drivers, p \in 0..(NumPatterns - 1) }

\* The geometries a shapefile may hold, in the shapefile's own coordinates.
Geometries ==
    { [cells |-> {<<0, 0>>}, is_valid |-> TRUE],
      [cells |-> {<<1, 0>>, <<1, 1>>}, is_valid |-> TRUE],
      [cells |-> {<<0, 1>>, <<2, 1>>}, is_valid |-> FALSE],
      [cells |-> {<<4, 4>>}, is_valid |-> TRUE] }

SeqsUpTo(S, n) == UNION { [1..k -> S] : k \in 0..n }

Shapefiles ==
    { [crs |-> crs, geometry |-> g] : crs \in CRSs, g \in SeqsUpTo(Geometries, MaxShapes) }

(***************************************************************************)
(* tiff_loader.py                                                          *)
(***************************************************************************)
Ok(v) == [ok |-> TRUE, err |-> "", val |-> v]
Raise(e) == [ok |-> FALSE, err |-> e, val |-> None]

\* A to_crs that leaves the coordinates in the shapefile's system.
to_crs_not_reprojected(geom, from_crs, image_crs) == geom

\* GeoSeries.to_crs: every coordinate is moved from the shapefile's system to
\* the image's.
to_crs(geom, from_crs, image_crs) ==
    [cells |-> { <<c[1] - CrsOffset(from_crs) + CrsOffset(image_crs), c[2]>> : c \in geom.cells },
     is_valid |-> geom.is_valid]

\* A first loop that does not test is_valid.
ValidShapes_unfiltered(shapes, i) == [k \in 1..Len(shapes) |-> shapes[k].cells]

\* The first loop of load_shape: the valid geometries, in file order.
RECURSIVE ValidShapes(_, _)
ValidShapes(shapes, i) ==
    IF i > Len(shapes) THEN <<>>
    ELSE IF shapes[i].is_valid
         THEN <<shapes[i].cells>> \o ValidShapes(shapes, i + 1)
         ELSE ValidShapes(shapes, i + 1)

\* The second loop of load_shape: for i in range(0, len(shapely_shapes)).
RECURSIVE UnionLoop(_, _, _)
UnionLoop(unified_shape, shapely_shapes, i) ==
    IF i > Len(shapely_shapes) THEN unified_shape
    ELSE UnionLoop(unified_shape \cup shapely_shapes[i], shapely_shapes, i + 1)

\* A load_shape that answers the empty shape when no geometry is valid.
load_shape_empty_union(file, image_crs) ==
    LET shapes == [i \in 1..Len(file.geometry) |-> to_crs(file.geometry[i], file.crs, image_crs)]
        shapely_shapes == ValidShapes(shapes, 1)
    IN  Ok(UnionLoop({}, shapely_shapes, 1))

load_shape(file, image_crs) ==
    LET shapes == [i \in 1..Len(file.geometry) |-> to_crs(file.geometry[i], file.crs, image_crs)]
        shapely_shapes == ValidShapes(shapes, 1)
    IN  IF Len(shapely_shapes) = 0
        THEN Raise("IndexError")          \* shapely_shapes[0] of an empty list
        ELSE Ok(UnionLoop(shapely_shapes[1], shapely_shapes, 1))

\* rasterio.mask.mask(src, [shape], crop=True): the raster is cut to the
\* window of the shape's bounding box, the pixels outside the shape are set
\* to the fill value 0, and the window's affine transform is returned.
NoData == Num(0)

mask(src, geom) ==
    LET xs == { c[1] : c \in geom }
        ys == { c[2] : c \in geom }
        cols == { x \in 1..src.width : src.transform.ox + x - 1 \in SetMin(xs)..SetMax(xs) }
        rows == { y \in 1..src.height : src.transform.oy + y - 1 \in SetMin(ys)..SetMax(ys) }
    IN  IF geom = {}
        THEN Raise("ValueError")          \* no geometry to mask with
        ELSE IF cols = {} \/ rows = {}
        THEN Raise("ValueError")          \* Input shapes do not overlap raster.
        ELSE LET c0 == SetMin(cols)
                 r0 == SetMin(rows)
                 ox == src.transform.ox + c0 - 1
                 oy == src.transform.oy + r0 - 1
             IN  Ok([image |->
                        [b \in 1..src.count |-> [y \in 1..Cardinality(rows) |->
                            [x \in 1..Cardinality(cols) |->
                                IF <<ox + x - 1, oy + y - 1>> \in geom
                                THEN src.bands[b][r0 + y - 1][c0 + x - 1]
                                ELSE NoData]]],
                     transform |-> [ox |-> ox, oy |-> oy]])

\* rasterio's src.meta.
src_meta(src) ==
    [driver |-> src.driver, height |-> src.height, width |-> src.width,
     count |-> src.count, crs |-> src.crs, transform |-> Some(src.transform)]

load_tif_image(src, shp) ==
    IF shp # None
    THEN LET m == mask(src, shp[1])
         IN  IF m.ok
             THEN Ok([tif_image |-> m.val.image,
                      tif_transform |-> Some(m.val.transform),
                      tif_meta |-> src_meta(src)])
             ELSE Raise(m.err)
    ELSE Ok([tif_image |-> src.bands,          \* src.read()
             tif_transform |-> None,           \* tif_transform = None
             tif_meta |-> src_meta(src)])

\* np.nan_to_num: NaN becomes 0.0.
nan_to_num(px) == IF px.nan THEN 0 ELSE px.t

\* ndarray.astype(int) of a finite float: the fraction is cut off (toward 0).
astype_int(t) == IF t >= 0 THEN t \div 10 ELSE -((-t) \div 10)

\* Storing an int into an np.uint8 array keeps the low 8 bits.
to_uint8(v) == v % 256

create_png_image(tif) ==
    LET tmp == [b \in 1..Len(tif) |-> [y \in 1..Len(tif[1]) |-> [x \in 1..Len(tif[1][1]) |->
                    astype_int(nan_to_num(tif[b][y][x]))]]]
    IN  IF Len(tif) = 1
        THEN Ok([y \in 1..Len(tif[1]) |-> [x \in 1..Len(tif[1][1]) |->
                    <<to_uint8(tmp[1][y][x])>>]])
        ELSE IF Len(tif) < 3
             THEN Raise("IndexError")     \* tmp[2, :, :] of a two-band array
             ELSE Ok([y \in 1..Len(tif[1]) |-> [x \in 1..Len(tif[1][1]) |->
                        <<to_uint8(tmp[3][y][x]), to_uint8(tmp[2][y][x]),
                          to_uint8(tmp[1][y][x])>>]])

\* A save_tif_image that replaces tif_meta instead of updating it.
meta_replaced(meta, tif, transform) ==
    [driver |-> "GTiff", height |-> Len(tif[1]), width |-> Len(tif[1][1]),
     transform |-> transform]

\* tif_meta.update({...}) of save_tif_image.
meta_update(meta, tif, transform) ==
    [meta EXCEPT !.driver = "GTiff",
                 !.height = Len(tif[1]),
                 !.width = Len(tif[1][1]),
                 !.transform = transform]

NoRet == [call |-> "", val |-> None]

TiffInit ==
    /\ image_file \in Rasters
    /\ shape_file \in {None} \cup { Some(f) : f \in Shapefiles }
    /\ pc = "start"
    /\ error = ""
    /\ shapefile_reads = 0
    /\ shape = None
    /\ tif_image = None
    /\ tif_transform = None
    /\ tif_meta = None
    /\ png_image = None
    /\ png_out = None
    /\ tif_out = None
    /\ ret = NoRet

TiffIdle ==
    /\ image_file = CHOOSE r \in Rasters : TRUE
    /\ shape_file = None
    /\ pc = "unused"
    /\ error = ""
    /\ shapefile_reads = 0
    /\ shape = None
    /\ tif_image = None
    /\ tif_transform = None
    /\ tif_meta = None
    /\ png_image = None
    /\ png_out = None
    /\ tif_out = None
    /\ ret = NoRet

\* __init__, lines 23-25: the image's CRS is read and the shape is loaded.
InitLoadShape ==
    /\ pc = "start"
    /\ shape_file # None
    /\ LET image_crs == image_file.crs
           r == load_shape(shape_file[1], image_crs)
       IN  /\ shapefile_reads' = shapefile_reads + 1
           /\ IF r.ok
              THEN /\ shape' = Some(r.val)
                   /\ pc' = "shape_loaded"
                   /\ error' = error
              ELSE /\ shape' = shape
                   /\ pc' = "failed"
                   /\ error' = r.err
    /\ UNCHANGED <<image_file, shape_file, tif_image, tif_transform, tif_meta,
                   png_image, png_out, tif_out, ret, plotVars>>

\* __init__, line 27.
InitLoadTif ==
    /\ IF shape_file = None THEN pc = "start" ELSE pc = "shape_loaded"
    /\ LET r == load_tif_image(image_file, shape)
       IN  IF r.ok
           THEN /\ tif_image' = Some(r.val.tif_image)
                /\ tif_transform' = r.val.tif_transform
                /\ tif_meta' = Some(r.val.tif_meta)
                /\ pc' = "tif_loaded"
                /\ error' = error
           ELSE /\ UNCHANGED <<tif_image, tif_transform, tif_meta>>
                /\ pc' = "failed"
                /\ error' = r.err
    /\ UNCHANGED <<image_file, shape_file, shapefile_reads, shape,
                   png_image, png_out, tif_out, ret, plotVars>>

\* __init__, line 28.
InitCreatePng ==
    /\ pc = "tif_loaded"
    /\ LET r == create_png_image(tif_image[1])
       IN  IF r.ok
           THEN /\ png_image' = Some(r.val)
                /\ pc' = "constructed"
                /\ error' = error
           ELSE /\ png_image' = png_image
                /\ pc' = "failed"
                /\ error' = r.err
    /\ UNCHANGED <<image_file, shape_file, shapefile_reads, shape,
                   tif_image, tif_transform, tif_meta, png_out, tif_out, ret, plotVars>>

save_tif_image ==
    /\ pc = "constructed"
    /\ tif_meta' = Some(meta_update(tif_meta[1], tif_image[1], tif_transform))
    /\ tif_out' = Some([meta |-> tif_meta'[1], data |-> tif_image[1]])
    /\ UNCHANGED <<image_file, shape_file, pc, error, shapefile_reads, shape,
                   tif_image, tif_transform, png_image, png_out, ret, plotVars>>

save_png_image ==
    /\ pc = "constructed"
    /\ png_out' = png_image
    /\ UNCHANGED <<image_file, shape_file, pc, error, shapefile_reads, shape,
                   tif_image, tif_transform, tif_meta, png_image, tif_out, ret, plotVars>>

get_tif_image ==
    /\ pc = "constructed"
    /\ ret' = [call |-> "get_tif_image", val |-> tif_image]
    /\ UNCHANGED <<image_file, shape_file, pc, error, shapefile_reads, shape,
                   tif_image, tif_transform, tif_meta, png_image, png_out, tif_out, plotVars>>

get_png_image ==
    /\ pc = "constructed"
    /\ ret' = [call |-> "get_png_image", val |-> png_image]
    /\ UNCHANGED <<image_file, shape_file, pc, error, shapefile_reads, shape,
                   tif_image, tif_transform, tif_meta, png_image, png_out, tif_out, plotVars>>

(***************************************************************************)
(* plot_thumb.py                                                           *)
(***************************************************************************)
MaxLines == 4        \* a csv file holds 0..MaxLines lines

\* The lines a csv file may hold, as sequences of characters.
CsvLines ==
    {
      <<"i", "m", "a", "g", "e", ";", "d", "a", "t", "e", ";", "v", "a", "l", "u", "e">>,   \* image;date;value
      <<"a", ";", "2", "0", "2", "0", "-", "0", "1", "-", "0", "5", ";", "0", ".", "5">>,   \* a;2020-01-05;0.5
      <<"b", ";", "2", "0", "2", "0", "-", "1", "-", "6", ";", "0", ".", "5", "0">>,   \* b;2020-1-6;0.50
      <<"c", ";", "2", "0", "2", "0", "-", "0", "2", "-", "3", "0", ";", "1">>,   \* c;2020-02-30;1
      <<"a", ";", "2", "0", "2", "0", "-", "0", "1", "-", "0", "7", ";", "x">>,   \* a;2020-01-07;x
      <<"b", ";", "2", "0", "2", "0", "-", "0", "1", "-", "0", "8">>,   \* b;2020-01-08
      <<>>,   \* (a blank line)
      <<"c", ";", "2", "0", "2", "0", "-", "0", "3", "-", "0", "1", ";", "1", ".", "0", ";", "-">>   \* c;2020-03-01;1.0;-
    }

ImageFiles == { <<"a">>, <<"b">>, <<"c">> }
\* Either every image file can be read, or "b" is missing.
ReadableSets == { ImageFiles, ImageFiles \ { <<"b">> } }

Digits == {"0", "1", "2", "3", "4", "5", "6", "7", "8", "9"}
DigitValue(c) ==
    CASE c = "0" -> 0 [] c = "1" -> 1 [] c = "2" -> 2 [] c = "3" -> 3 [] c = "4" -> 4
      [] c = "5" -> 5 [] c = "6" -> 6 [] c = "7" -> 7 [] c = "8" -> 8 [] c = "9" -> 9

\* The decimal value of a sequence of digits.
RECURSIVE Numeral(_)
Numeral(ds) ==
    IF Len(ds) = 0 THEN 0
    ELSE 10 * Numeral(SubSeq(ds, 1, Len(ds) - 1)) + DigitValue(ds[Len(ds)])

\* The text split at every occurrence of sep (csv.reader's fields for
\* unquoted text; the parts of a date).
RECURSIVE SplitFrom(_, _, _, _)
SplitFrom(text, sep, i, field) ==
    IF i > Len(text) THEN <<field>>
    ELSE IF text[i] = sep
         THEN <<field>> \o SplitFrom(text, sep, i + 1, <<>>)
         ELSE SplitFrom(text, sep, i + 1, Append(field, text[i]))

Split(text, sep) == SplitFrom(text, sep, 1, <<>>)

\* csv.reader(csv_file, delimiter=';') on one line: a blank line is the
\* empty row.
csv_row(line) == IF Len(line) = 0 THEN <<>> ELSE Split(line, ";")

AllDigits(s) == \A i \in 1..Len(s) : s[i] \in Digits

\* A float as mantissa * 10^exp with the mantissa not divisible by 10, so
\* that equal numbers are equal records.
RECURSIVE Normal(_, _)
Normal(m, e) ==
    IF m = 0 THEN [m |-> 0, e |-> 0]
    ELSE IF m % 10 = 0 THEN Normal(m \div 10, e + 1)
         ELSE [m |-> m, e |-> e]

\* float(text) for decimal text: [-]digits[.digits]; anything else raises.
float(text) ==
    LET neg == Len(text) > 0 /\ text[1] = "-"
        body == IF neg THEN SubSeq(text, 2, Len(text)) ELSE text
        parts == Split(body, ".")
        whole == parts[1]
        frac == IF Len(parts) = 2 THEN parts[2] ELSE <<>>
    IN  IF /\ Len(parts) <= 2
           /\ AllDigits(whole) /\ AllDigits(frac)
           /\ Len(whole) + Len(frac) > 0
        THEN LET m == Numeral(whole \o frac)
             IN  Ok(Normal(IF neg THEN -m ELSE m, -Len(frac)))
        ELSE Raise("ValueError")

RECURSIVE load_csv_rows(_, _, _)
load_csv_rows(lines, line_count, acc) ==
    IF line_count >= Len(lines) THEN Ok(acc)
    ELSE LET row == csv_row(lines[line_count + 1])
         IN  IF line_count > 0
             THEN IF Len(row) < 3
                  THEN Raise("IndexError")
                  ELSE LET v == float(row[3])
                       IN  IF v.ok
                           THEN load_csv_rows(lines, line_count + 1,
                                              Append(acc, <<row[1], row[2], v.val>>))
                           ELSE Raise(v.err)
             ELSE load_csv_rows(lines, line_count + 1, acc)

\* A load_csv that does not skip the first line (if line_count >= 0).
load_csv_with_header(lines) == load_csv_rows(<<<<>>>> \o lines, 0, <<>>)

load_csv(lines) == load_csv_rows(lines, 0, <<>>)

IsLeap(y) == (y % 4 = 0 /\ y % 100 # 0) \/ y % 400 = 0
DaysInMonth(y, m) ==
    IF m = 2 THEN (IF IsLeap(y) THEN 29 ELSE 28)
    ELSE IF m \in {4, 6, 9, 11} THEN 30 ELSE 31

\* datetime.datetime.strptime(text, "%Y-%m-%d").date()
strptime(text) ==
    LET parts == Split(text, "-")
    IN  IF /\ Len(parts) = 3
           /\ AllDigits(parts[1]) /\ AllDigits(parts[2]) /\ AllDigits(parts[3])
           /\ Len(parts[1]) = 4
           /\ Len(parts[2]) \in 1..2
           /\ Len(parts[3]) \in 1..2
        THEN LET y == Numeral(parts[1])
                 m == Numeral(parts[2])
                 d == Numeral(parts[3])
             IN  IF y >= 1 /\ m \in 1..12 /\ d >= 1 /\ d <= DaysInMonth(y, m)
                 THEN Ok([year |-> y, month |-> m, day |-> d])
                 ELSE Raise("ValueError")
        ELSE Raise("ValueError")

\* plt.imread(image_filename, format='png')
imread(image_filename, files) ==
    IF image_filename \in files THEN Ok(image_filename) ELSE Raise("FileNotFoundError")

\* The loop of create_thumbnail_pictures from row i on; previous_percentage
\* is None before the first row.
\* Line 23 without the test for the last row.
needs_thumbnail_on_change_only(previous_percentage, current_percentage, i, n) ==
    previous_percentage # Some(current_percentage)

\* Line 23 when previous_percentage is never updated (it stays None).
needs_thumbnail_always(previous_percentage, current_percentage, i, n) ==
    (None # Some(current_percentage)) \/ (i = n)

\* Line 23: whether row i of n gets a thumbnail.
needs_thumbnail(previous_percentage, current_percentage, i, n) ==
    (previous_percentage # Some(current_percentage)) \/ (i = n)

RECURSIVE thumbnail_loop(_, _, _, _, _, _)
thumbnail_loop(rows, files, i, previous_percentage, artists, reads) ==
    IF i > Len(rows) THEN [ok |-> TRUE, err |-> "", artists |-> artists, reads |-> reads]
    ELSE LET image_filename == rows[i][1]
             current_percentage == rows[i][3]
             date == rows[i][2]
         IN  IF needs_thumbnail(previous_percentage, current_percentage, i, Len(rows))
             THEN LET image == imread(image_filename, files)
                      xdate == strptime(date)
                  IN  IF ~image.ok
                      THEN [ok |-> FALSE, err |-> image.err, artists |-> artists, reads |-> reads]
                      ELSE IF ~xdate.ok
                      THEN [ok |-> FALSE, err |-> xdate.err, artists |-> artists,
                            reads |-> Append(reads, i)]
                      ELSE thumbnail_loop(rows, files, i + 1, Some(current_percentage),
                               Append(artists, [row |-> i, image |-> image.val,
                                                xy |-> <<xdate.val, current_percentage>>]),
                               Append(reads, i))
             ELSE thumbnail_loop(rows, files, i + 1, Some(current_percentage), artists, reads)

create_thumbnail_pictures(rows, files) == thumbnail_loop(rows, files, 1, None, <<>>, <<>>)

\* Lines 50-56 of plot_data: the points drawn, or the error of a bad date.
plot_points(rows) ==
    IF \A i \in 1..Len(rows) : strptime(rows[i][2]).ok
    THEN Ok([i \in 1..Len(rows) |-> <<strptime(rows[i][2]).val, rows[i][3]>>])
    ELSE Raise("ValueError")

PlotInit ==
    /\ csv_file \in SeqsUpTo(CsvLines, MaxLines)
    /\ readable \in ReadableSets
    /\ ppc = "start"
    /\ perror = ""
    /\ data = <<>>
    /\ plotted = <<>>
    /\ thumbs = <<>>
    /\ imreads = <<>>
    /\ saved = FALSE

PlotIdle ==
    /\ csv_file = <<>>
    /\ readable = {}
    /\ ppc = "unused"
    /\ perror = ""
    /\ data = <<>>
    /\ plotted = <<>>
    /\ thumbs = <<>>
    /\ imreads = <<>>
    /\ saved = FALSE

\* __main__, line 100.
LoadCsv ==
    /\ ppc = "start"
    /\ LET r == load_csv(csv_file)
       IN  IF r.ok
           THEN /\ data' = r.val
                /\ ppc' = "loaded"
                /\ perror' = perror
           ELSE /\ data' = data
                /\ ppc' = "load_failed"
                /\ perror' = r.err
    /\ UNCHANGED <<csv_file, readable, plotted, thumbs, imreads, saved, tiffVars>>

\* __main__, line 101: plot_data(data, output_path + '/results.pdf').
PlotData ==
    /\ ppc = "loaded"
    /\ LET pts == plot_points(data)
           t == create_thumbnail_pictures(data, readable)
       IN  IF ~pts.ok
           THEN /\ ppc' = "plot_failed"
                /\ perror' = pts.err
                /\ UNCHANGED <<plotted, thumbs, imreads, saved>>
           ELSE /\ plotted' = pts.val
                /\ thumbs' = t.artists
                /\ imreads' = t.reads
                /\ IF t.ok
                   THEN /\ saved' = TRUE
                        /\ ppc' = "done"
                        /\ perror' = perror
                   ELSE /\ saved' = saved
                        /\ ppc' = "plot_failed"
                        /\ perror' = t.err
    /\ UNCHANGED <<csv_file, readable, data, tiffVars>>

(***************************************************************************)
(* The specifications.                                                     *)
(***************************************************************************)
Init == TiffInit /\ PlotIdle

Next ==
    \/ InitLoadShape
    \/ InitLoadTif
    \/ InitCreatePng
    \/ save_tif_image
    \/ save_png_image
    \/ get_tif_image
    \/ get_png_image

Spec == Init /\ [][Next]_vars

InitPlot == TiffIdle /\ PlotInit

NextPlot ==
    \/ LoadCsv
    \/ PlotData

SpecPlot == InitPlot /\ [][NextPlot]_vars

(***************************************************************************)
(* Properties of TiffLoader (checked under Spec).                          *)
(***************************************************************************)
\* The cells of the valid geometries of a shapefile, in the image's system.
ValidCells(file, image_crs) ==
    UNION { { <<c[1] + CrsOffset(image_crs) - CrsOffset(file.crs), c[2]>> :
                c \in file.geometry[i].cells } :
            i \in { j \in 1..Len(file.geometry) : file.geometry[j].is_valid } }

\* t, with transform tr, is src cut to the bounding box of the cells S, with
\* the pixels outside S set to the fill value.
IsMaskedCrop(t, tr, src, S) ==
    LET InBox(wx, wy) ==
            /\ \E c \in S : c[1] <= wx
            /\ \E c \in S : c[1] >= wx
            /\ \E c \in S : c[2] <= wy
            /\ \E c \in S : c[2] >= wy
        SrcInBox == { q \in (1..src.width) \X (1..src.height) :
                        InBox(src.transform.ox + q[1] - 1, src.transform.oy + q[2] - 1) }
    IN  /\ Len(t) = src.count
        /\ Len(t[1]) * Len(t[1][1]) = Cardinality(SrcInBox)
        /\ \A b \in 1..Len(t) : \A y \in 1..Len(t[1]) : \A x \in 1..Len(t[1][1]) :
             LET wx == tr.ox + x - 1
                 wy == tr.oy + y - 1
                 sx == wx - src.transform.ox + 1
                 sy == wy - src.transform.oy + 1
             IN  /\ <<sx, sy>> \in SrcInBox
                 /\ t[b][y][x] = IF <<wx, wy>> \in S THEN src.bands[b][sy][sx] ELSE NoData

\* C1: masking is decided by shape_filename alone. Without a shapefile none
\* is read and tif_image is the whole raster; with one, the shape is loaded
\* and reprojected to the image's CRS before the image is loaded, and
\* tif_image is the raster masked and cropped to it. png_image exists only
\* once tif_image does.
C1_MaskingDecidedByShapeFilename ==
    /\ shape_file = None => shapefile_reads = 0 /\ shape = None
    /\ (shape_file = None /\ tif_image # None) => tif_image[1] = image_file.bands
    /\ (shape_file # None /\ tif_image # None) =>
          /\ shapefile_reads = 1
          /\ shape = Some(ValidCells(shape_file[1], image_file.crs))
          /\ tif_transform # None
          /\ IsMaskedCrop(tif_image[1], tif_transform[1], image_file, shape[1])
    /\ (shape_file # None /\ shape = None) => tif_image = None
    /\ png_image # None => tif_image # None
    /\ pc \in {"tif_loaded", "constructed"} => tif_image # None

C1_Witness ==
    /\ pc = "constructed"
    /\ shape_file # None
    /\ shape_file[1].crs # image_file.crs
    /\ Len(tif_image[1][1][1]) < image_file.width
    /\ \E y \in 1..Len(tif_image[1][1]) : \E x \in 1..Len(tif_image[1][1][1]) :
          tif_image[1][1][y][x] # NoData

\* C5 (as claimed): load_tif_image returns an affine transform in both
\* modes, so the TIFF written by save_tif_image has driver GTiff, the height
\* and width of tif_image and a non-null transform.
C5_TransformIsAffine ==
    /\ tif_image # None => tif_transform # None
    /\ (shape_file = None /\ tif_image # None) => tif_transform = Some(image_file.transform)
    /\ tif_out # None =>
          /\ tif_out[1].meta.driver = "GTiff"
          /\ tif_out[1].meta.height = Len(tif_image[1][1])
          /\ tif_out[1].meta.width = Len(tif_image[1][1][1])
          /\ tif_out[1].meta.transform # None

\* C6: load_shape returns the union of exactly the valid geometries: every
\* valid geometry is contained in it, no invalid one contributes, and the
\* order of the geometries in the file does not matter.
C6_LoadShapeIsUnionOfValid ==
    shape # None =>
        LET f == shape_file[1]
            n == Len(f.geometry)
        IN  /\ shape[1] = ValidCells(f, image_file.crs)
            /\ \A i \in 1..n : f.geometry[i].is_valid =>
                  to_crs(f.geometry[i], f.crs, image_file.crs).cells \subseteq shape[1]
            /\ \A p \in Permutations(1..n) :
                  load_shape([f EXCEPT !.geometry = [i \in 1..n |-> f.geometry[p[i]]]],
                             image_file.crs) = Ok(shape[1])

C6_Witness ==
    /\ shape # None
    /\ Len(shape_file[1].geometry) = 2
    /\ ~shape_file[1].geometry[1].is_valid
    /\ shape_file[1].geometry[2].is_valid
    /\ shape[1] # {}

\* The value of the pixel of band b at (y, x), as an integer, when it is one.
IsInteger(px) == ~px.nan /\ px.t % 10 = 0
IntegerOf(px) == px.t \div 10

\* The channel of png_image that holds band b.
ChannelOf(b, count) == IF count = 1 THEN 1 ELSE 4 - b

\* C4 (as claimed): every output pixel is in 0..255, NaN becomes 0, an
\* integer already in 0..255 is kept, and integers outside 0..255 keep their
\* order (they are not reduced modulo 256).
C4_PngRepresentsData ==
    png_image # None =>
        LET tif == tif_image[1]
            png == png_image[1]
            Px == { q \in (1..Len(tif)) \X (1..Len(tif[1])) \X (1..Len(tif[1][1])) : q[1] <= 3 }
            In(q) == tif[q[1]][q[2]][q[3]]
            Out(q) == png[q[2]][q[3]][ChannelOf(q[1], Len(tif))]
        IN  /\ \A q \in Px : Out(q) \in 0..255
            /\ \A q \in Px : In(q).nan => Out(q) = 0
            /\ \A q \in Px : (IsInteger(In(q)) /\ IntegerOf(In(q)) \in 0..255) =>
                                Out(q) = IntegerOf(In(q))
            /\ \A q, r \in Px : (IsInteger(In(q)) /\ IsInteger(In(r))
                                 /\ IntegerOf(In(q)) <= IntegerOf(In(r))) =>
                                Out(q) <= Out(r)

\* C7 (as claimed): for every band count b >= 1 the conversion completes,
\* with shape (H, W, 1) when b = 1 and (H, W, 3) otherwise, the bands in
\* reverse order (channel 2 is band 0, channel 1 band 1, channel 0 band 2) and
\* the bands beyond the third ignored.
C7_PngShapeForEveryBandCount ==
    /\ tif_image # None => pc # "failed"
    /\ png_image # None =>
          LET tif == tif_image[1]
              png == png_image[1]
          IN  /\ Len(png) = Len(tif[1])
              /\ \A y \in 1..Len(png) :
                    /\ Len(png[y]) = Len(tif[1][1])
                    /\ \A x \in 1..Len(png[y]) :
                          /\ Len(png[y][x]) = IF Len(tif) = 1 THEN 1 ELSE 3
                          /\ \A b \in 1..Len(tif) : b <= 3 =>
                                png[y][x][ChannelOf(b, Len(tif))] =
                                    to_uint8(astype_int(nan_to_num(tif[b][y][x])))

\* C9: once constructed, no get_ or save_ call changes tif_image,
\* tif_transform or png_image, and png_image stays the conversion of
\* tif_image; tif_meta changes only in save_tif_image, only in its driver,
\* height, width and transform entries, and not again in a second call.
C9_Step ==
    pc = "constructed" =>
        /\ pc' = "constructed"
        /\ tif_image' = tif_image
        /\ tif_transform' = tif_transform
        /\ png_image' = png_image
        /\ create_png_image(tif_image'[1]) = Ok(png_image'[1])
        /\ DOMAIN tif_meta'[1] = DOMAIN tif_meta[1]
        /\ \A k \in DOMAIN tif_meta[1] \ {"driver", "height", "width", "transform"} :
              tif_meta'[1][k] = tif_meta[1][k]
        /\ (ret'.call # ret.call \/ png_out' # png_out) => tif_meta' = tif_meta
        /\ tif_out' = tif_out => tif_meta' = tif_meta
        /\ tif_out # None => (tif_meta' = tif_meta /\ tif_out' = tif_out)

\* C9: every step of a constructed TiffLoader keeps the images and changes
\* tif_meta only as save_tif_image may (C9_Step).
C9_CallsKeepTheImages == [][C9_Step]_vars

C9_Witness ==
    /\ pc = "constructed"
    /\ tif_out # None
    /\ png_out # None
    /\ ret.call = "get_tif_image"
    /\ tif_meta[1] # src_meta(image_file)

\* C10: a shapefile without a valid geometry makes load_shape, and with it
\* the construction, fail before the image is loaded: no tif_image, no
\* png_image, no output file.
NoValidGeometry(file) == \A i \in 1..Len(file.geometry) : ~file.geometry[i].is_valid

C10_NoValidGeometryFails ==
    (shape_file # None /\ NoValidGeometry(shape_file[1])) =>
        /\ pc \in {"start", "failed"}
        /\ pc = "failed" => error = "IndexError"
        /\ shape = None
        /\ tif_image = None
        /\ tif_transform = None
        /\ tif_meta = None
        /\ png_image = None
        /\ png_out = None
        /\ tif_out = None

C10_Witness ==
    /\ shape_file # None
    /\ Len(shape_file[1].geometry) > 0
    /\ NoValidGeometry(shape_file[1])
    /\ pc = "failed"
    /\ shapefile_reads = 1

(***************************************************************************)
(* Properties of plot_thumb (checked under SpecPlot).                      *)
(***************************************************************************)
\* The positions of the separators of a line, and the position of the n-th.
Semis(line) == { i \in 1..Len(line) : line[i] = ";" }
NthSemi(line, n) ==
    CHOOSE p \in Semis(line) : Cardinality({ q \in Semis(line) : q < p }) = n - 1

HasField(line, n) == Len(line) > 0 /\ Cardinality(Semis(line)) >= n

\* Field n (from 0) of a line: the text after the n-th separator (or the
\* start of the line) up to the next separator (or the end of the line).
FieldOf(line, n) ==
    SubSeq(line,
           IF n = 0 THEN 1 ELSE NthSemi(line, n) + 1,
           IF Cardinality(Semis(line)) > n THEN NthSemi(line, n + 1) - 1 ELSE Len(line))

IsDecimal(f) ==
    /\ \A i \in 1..Len(f) : f[i] \in Digits \cup {".", "-"}
    /\ \A i \in 1..Len(f) : f[i] = "-" => i = 1
    /\ Cardinality({ i \in 1..Len(f) : f[i] = "." }) <= 1
    /\ \E i \in 1..Len(f) : f[i] \in Digits

RECURSIVE Pow10(_)
Pow10(n) == IF n = 0 THEN 1 ELSE 10 * Pow10(n - 1)

\* The float v is the number the decimal text f writes.
DecimalDenotes(f, v) ==
    LET dot == { i \in 1..Len(f) : f[i] = "." }
        d == IF dot = {} THEN 0 ELSE Len(f) - SetMax(dot)
        digits == SelectSeq(f, LAMBDA c : c \in Digits)
        n == IF f[1] = "-" THEN -Numeral(digits) ELSE Numeral(digits)
    IN  /\ IsDecimal(f)
        /\ v.e + d >= 0
        /\ n = v.m * Pow10(v.e + d)

\* A line load_csv can convert: a third field that writes a decimal number.
WellFormedRow(line) == HasField(line, 2) /\ IsDecimal(FieldOf(line, 2))

\* C3: load_csv returns one entry per line after the header, in file order,
\* entry k being [field 0, field 1, float(field 2)] of line k+1; the header
\* is never part of the result, and a file of at most one line gives [].
C3_LoadCsvSkipsHeader ==
    ppc # "start" =>
        /\ (\A k \in 2..Len(csv_file) : WellFormedRow(csv_file[k])) => ppc # "load_failed"
        /\ ppc # "load_failed" =>
              /\ Len(data) = IF Len(csv_file) = 0 THEN 0 ELSE Len(csv_file) - 1
              /\ \A k \in 1..Len(data) :
                    /\ HasField(csv_file[k + 1], 2)
                    /\ data[k][1] = FieldOf(csv_file[k + 1], 0)
                    /\ data[k][2] = FieldOf(csv_file[k + 1], 1)
                    /\ DecimalDenotes(FieldOf(csv_file[k + 1], 2), data[k][3])

C3_Witness ==
    /\ ppc = "loaded"
    /\ Len(csv_file) = 3
    /\ Len(data) = 2
    /\ WellFormedRow(csv_file[1])
    /\ csv_file[2] # csv_file[3]
    /\ data[1][3] = data[2][3]

HasThumb(i) == \E k \in 1..Len(thumbs) : thumbs[k].row = i

\* C2 (as claimed): a row after the first gets a thumbnail if and only if
\* its value differs from the value of the row before it.
C2_ThumbnailIffValueChanges ==
    ppc = "done" =>
        \A i \in 2..Len(data) : HasThumb(i) <=> (data[i][3] # data[i - 1][3])

\* C2 (amended): a row after the first gets a thumbnail if and only if its
\* value differs from the value of the row before it or it is the last row.
C2_ThumbnailIffChangeOrLast ==
    ppc = "done" =>
        \A i \in 2..Len(data) :
            HasThumb(i) <=> (data[i][3] # data[i - 1][3] \/ i = Len(data))

C2_Witness ==
    /\ ppc = "done"
    /\ Len(data) = 3
    /\ data[2][3] = data[1][3]
    /\ data[3][3] = data[2][3]
    /\ ~HasThumb(2)
    /\ HasThumb(3)

\* C8: for a non-empty list the first and the last row always get a
\* thumbnail, so there are between 1 and len(data) of them; each thumbnail
\* shows the image of its own row at that row's (date, value); an image is
\* read only for a row that gets a thumbnail; an empty list gives none.
C8_FirstAndLastRowThumbnails ==
    /\ ppc = "done" =>
          /\ Len(data) > 0 =>
                /\ HasThumb(1)
                /\ HasThumb(Len(data))
                /\ Len(thumbs) >= 1
                /\ Len(thumbs) <= Len(data)
          /\ Len(data) = 0 => (thumbs = <<>> /\ imreads = <<>>)
          /\ Len(imreads) = Len(thumbs)
    /\ \A k \in 1..Len(thumbs) :
          /\ thumbs[k].row \in 1..Len(data)
          /\ thumbs[k].image = data[thumbs[k].row][1]
          /\ thumbs[k].xy = plotted[thumbs[k].row]
          /\ thumbs[k].xy[2] = data[thumbs[k].row][3]
          /\ \A j \in 1..Len(thumbs) : thumbs[j].row = thumbs[k].row => j = k
    /\ \A k \in 1..Len(imreads) : HasThumb(imreads[k])

C8_Witness ==
    /\ ppc = "done"
    /\ Len(data) = 2
    /\ data[1][3] = data[2][3]
    /\ data[1][1] # data[2][1]
    /\ Len(thumbs) = 2
    /\ imreads = <<1, 2>>

====
